---- MODULE Spec2Model ----
(***************************************************************************)
(* Model of src/download_datasets.py: the module-level configuration       *)
(* (API_KEY), then download_datasets(): makedirs, read_csv + to_csv,        *)
(* requests.get + raise_for_status + json + DataFrame + to_csv, pd.merge    *)
(* (on="_id", how="outer") + to_csv.                                        *)
(***************************************************************************)
EXTENDS Integers, Sequences, FiniteSets, TLC

(* ---- bounds of the model ---- *)
MaxId == 2          \* key values are 1..MaxId, plus the missing key NaN
MaxRows == 1        \* rows of a fetched table in the runs of the pipeline
MaxRowsA == 2       \* rows of the left frame in the runs of the merge
MaxRowsB == 2       \* rows of the right frame in the runs of the merge

(* ---- values ---- *)
NaN == 0            \* pandas' missing-value marker
Ids == 1..MaxId
KeyVals == Ids \cup {NaN}
Vals == {1, 2}          \* the values of a non-key cell

Range(s) == {s[i] : i \in DOMAIN s}

(* A table: the set of its columns, the dtype of its key column and its    *)
(* rows.  A cell of a column the table does not have is NaN.               *)
Row(k, t, v) == [id |-> k, trait |-> t, asset_value |-> v]

Table(c, kd, rs) == [cols |-> c, kind |-> kd, rows |-> rs]

Unset == Table({}, "unset", <<>>)

SeqsUpTo(S, n) == UNION {[1..m -> S] : m \in 0..n}

KeyKinds == {"int64", "object"}

\* what pd.read_csv can return: a header is always there, rows may be none
PersonalityTables(n) ==
    {Table({"_id", "trait"}, kd, rs) :
        kd \in KeyKinds,
        rs \in SeqsUpTo({Row(k, t, NaN) : k \in KeyVals, t \in Vals}, n)}
    \cup
    {Table({"trait"}, "none", rs) :
        rs \in SeqsUpTo({Row(NaN, t, NaN) : t \in Vals}, n)}

\* what pd.DataFrame(resp.json()) can return: the columns are the keys of
\* the objects of the array, so an empty array has no column
AssetsTables(n) ==
    {Table({"_id", "asset_value"}, kd, rs) :
        kd \in KeyKinds,
        rs \in (SeqsUpTo({Row(k, NaN, v) : k \in KeyVals, v \in Vals}, n)
                  \ {<<>>})}
    \cup
    {Table({"asset_value"}, "none", rs) :
        rs \in (SeqsUpTo({Row(NaN, NaN, v) : v \in Vals}, n) \ {<<>>})}
    \cup
    {Table({}, "none", <<>>)}

(* ---- configuration (module level) ---- *)
DefaultKey == "embedded_default_key"
EnvKeys == {"absent", "env_key"}

\* os.getenv("SUPABASE_API_KEY", <default>)
getenv(env, default) == IF env = "absent" THEN default ELSE env

(* ---- control flow ---- *)
Steps == <<"config", "makedirs", "read_personality", "write_personality",
           "get_assets", "write_assets", "merge", "write_merged">>

StepIndex(step) == CHOOSE i \in DOMAIN Steps : Steps[i] = step

\* the statement after step, in program order
Succ(step) ==
    IF StepIndex(step) = Len(Steps) THEN "done" ELSE Steps[StepIndex(step) + 1]

AfterStep_swallow(step, raised) == Succ(step)

\* no try/except anywhere: an exception ends the run
AfterStep(step, raised) == IF raised THEN "error" ELSE Succ(step)

PathOf_assets(step) ==
    CASE step = "write_personality" -> "assets.csv"
      [] step = "write_assets" -> "assets.csv"
      [] OTHER -> "merged_dataset.csv"

\* the file each to_csv call names
PathOf(step) ==
    CASE step = "write_personality" -> "personality.csv"
      [] step = "write_assets" -> "assets.csv"
      [] OTHER -> "merged_dataset.csv"

Paths == {"personality.csv", "assets.csv", "merged_dataset.csv"}

(* ---- files ---- *)
Absent == [state |-> "absent", table |-> Unset]
Stale == [state |-> "stale", table |-> Unset]
Full(T) == [state |-> "full", table |-> T]
Partial(T) == [state |-> "partial", table |-> T]

WriteOutcomes == {"ok", "open_failed", "write_failed"}

\* DataFrame.to_csv(path, index=False): the file is opened for writing
\* (truncated) and the table written; a failure at open leaves the file
\* as it was, a failure while writing leaves a truncated file
to_csv(fs, path, T, outcome) ==
    CASE outcome = "ok" -> [fs EXCEPT ![path] = Full(T)]
      [] outcome = "write_failed" -> [fs EXCEPT ![path] = Partial(T)]
      [] OTHER -> fs

(* ---- the assets request ---- *)
Statuses == {200, 300, 404, 500}

raise_for_status_never(status) == FALSE

\* requests.Response.raise_for_status: HTTPError for 4xx and 5xx
raise_for_status(status) == 400 <= status /\ status < 600

(* ---- pd.merge(df_personality, df_assets, on="_id", how="outer") ---- *)
SelectRows(T, k) == SelectSeq(T.rows, LAMBDA r : r.id = k)

KeysOf(T) == {T.rows[i].id : i \in DOMAIN T.rows}

MergeKeys_inner(A, B) == KeysOf(A) \cap KeysOf(B)

\* how="outer": the keys of both frames
MergeKeys(A, B) == KeysOf(A) \cup KeysOf(B)

\* the keys in the order of the result: sorted, the missing key last
RECURSIVE KeyOrder(_)
KeyOrder(S) ==
    IF S = {} THEN <<>>
    ELSE IF S = {NaN} THEN <<NaN>>
    ELSE LET m == CHOOSE x \in S \ {NaN} : \A y \in S \ {NaN} : x <= y
         IN <<m>> \o KeyOrder(S \ {m})

Combine(a, b) == Row(a.id, a.trait, b.asset_value)

LeftOnly_fill(a) == Row(a.id, a.trait, 1)

\* a row of the left frame without a match: the right columns are missing
LeftOnly(a) == Row(a.id, a.trait, NaN)

\* a row of the right frame without a match: the left columns are missing
RightOnly(b) == Row(b.id, NaN, b.asset_value)

Cross_first(ra, rb) == [n \in 1..Len(ra) |-> Combine(ra[n], rb[1])]

\* every pairing of the matching rows of both sides
Cross(ra, rb) ==
    [n \in 1..(Len(ra) * Len(rb)) |->
        Combine(ra[((n - 1) \div Len(rb)) + 1], rb[((n - 1) % Len(rb)) + 1])]

RowsForKey(A, B, k) ==
    LET ra == SelectRows(A, k)
        rb == SelectRows(B, k)
    IN  IF ra # <<>> /\ rb # <<>> THEN Cross(ra, rb)
        ELSE IF ra # <<>> THEN [i \in 1..Len(ra) |-> LeftOnly(ra[i])]
        ELSE [i \in 1..Len(rb) |-> RightOnly(rb[i])]

RECURSIVE ConcatKeys(_, _, _)
ConcatKeys(A, B, ks) ==
    IF ks = <<>> THEN <<>>
    ELSE RowsForKey(A, B, Head(ks)) \o ConcatKeys(A, B, Tail(ks))

\* KeyError when a frame lacks the key column; ValueError when the key
\* columns of two non-empty frames are a numeric and a string column
MergeRaises(A, B) ==
    \/ "_id" \notin A.cols
    \/ "_id" \notin B.cols
    \/ (A.kind # B.kind /\ A.rows # <<>> /\ B.rows # <<>>)

merge(A, B) ==
    Table(A.cols \cup B.cols,
          IF A.rows # <<>> THEN A.kind ELSE B.kind,
          ConcatKeys(A, B, KeyOrder(MergeKeys(A, B))))

(* ---- state ---- *)
VARIABLES
    pc,              \* the statement to execute next, "done" or "error"
    envKey,          \* SUPABASE_API_KEY in the environment
    API_KEY,         \* the module-level API_KEY
    dirExists,       \* whether datasets/ exists
    files,           \* the content of each file under datasets/
    df_personality,
    df_assets,
    merged_df,
    resp,            \* the outcome of the assets request
    headers,         \* the key in the headers of the assets request
    err,             \* the statement that raised, or "none"
    written,         \* the paths this run's to_csv calls changed, in order
    trace            \* the statements executed, in order

vars == <<pc, envKey, API_KEY, dirExists, files, df_personality, df_assets,
          merged_df, resp, headers, err, written, trace>>

NoResp == [outcome |-> "none", status |-> 0, parsed |-> FALSE]

Init ==
    /\ pc = "config"
    /\ envKey \in EnvKeys
    /\ API_KEY = "unset"
    /\ dirExists \in BOOLEAN
    \* an existing directory holds the files of an earlier run
    /\ files = [p \in Paths |-> IF dirExists THEN Stale ELSE Absent]
    /\ df_personality = Unset
    /\ df_assets = Unset
    /\ merged_df = Unset
    /\ resp = NoResp
    /\ headers = "none"
    /\ err = "none"
    /\ written = <<>>
    /\ trace = <<>>

\* common part of every statement: where control goes and what is recorded
Control(step, raised) ==
    /\ pc' = AfterStep(step, raised)
    /\ err' = IF raised /\ err = "none" THEN step ELSE err
    /\ trace' = Append(trace, step)

\* lines 50-55
Config ==
    /\ pc = "config"
    /\ API_KEY' = getenv(envKey, DefaultKey)
    /\ Control("config", FALSE)
    /\ UNCHANGED <<envKey, dirExists, files, df_personality, df_assets,
                   merged_df, resp, headers, written>>

\* lines 14-15
MakeDirs ==
    /\ pc = "makedirs"
    /\ \E ok \in BOOLEAN :
        /\ dirExists' = (dirExists \/ ok)
        /\ Control("makedirs", ~dirExists /\ ~ok)
    /\ UNCHANGED <<envKey, API_KEY, files, df_personality, df_assets,
                   merged_df, resp, headers, written>>

\* line 19
ReadPersonality ==
    /\ pc = "read_personality"
    /\ \/ /\ \E T \in PersonalityTables(MaxRows) : df_personality' = T
          /\ Control("read_personality", FALSE)
       \/ /\ UNCHANGED df_personality
          /\ Control("read_personality", TRUE)
    /\ UNCHANGED <<envKey, API_KEY, dirExists, files, df_assets, merged_df,
                   resp, headers, written>>

\* lines 20, 35, 39
Write(step, T) ==
    /\ pc = step
    /\ \E outcome \in WriteOutcomes :
        /\ files' = to_csv(files, PathOf(step), T, outcome)
        /\ written' = IF outcome = "open_failed" THEN written
                      ELSE Append(written, PathOf(step))
        /\ Control(step, outcome # "ok")
    /\ UNCHANGED <<envKey, API_KEY, dirExists, df_personality, df_assets,
                   merged_df, resp, headers>>

WritePersonality == Write("write_personality", df_personality)

WriteAssets == Write("write_assets", df_assets)

WriteMerged == Write("write_merged", merged_df)

\* lines 23-34
GetAssets ==
    /\ pc = "get_assets"
    /\ headers' = API_KEY
    /\ \/ /\ resp' = [outcome |-> "timeout", status |-> 0, parsed |-> FALSE]
          /\ UNCHANGED df_assets
          /\ Control("get_assets", TRUE)
       \/ \E s \in Statuses :
            \/ /\ raise_for_status(s)
               /\ resp' = [outcome |-> "response", status |-> s,
                           parsed |-> FALSE]
               /\ UNCHANGED df_assets
               /\ Control("get_assets", TRUE)
            \/ /\ ~raise_for_status(s)
               \* the body is not JSON, or not something DataFrame accepts
               /\ resp' = [outcome |-> "response", status |-> s,
                           parsed |-> FALSE]
               /\ UNCHANGED df_assets
               /\ Control("get_assets", TRUE)
            \/ /\ ~raise_for_status(s)
               /\ resp' = [outcome |-> "response", status |-> s,
                           parsed |-> TRUE]
               /\ \E T \in AssetsTables(MaxRows) : df_assets' = T
               /\ Control("get_assets", FALSE)
    /\ UNCHANGED <<envKey, API_KEY, dirExists, files, df_personality,
                   merged_df, written>>

\* line 38
Merge ==
    /\ pc = "merge"
    /\ IF MergeRaises(df_personality, df_assets)
       THEN /\ UNCHANGED merged_df
            /\ Control("merge", TRUE)
       ELSE /\ merged_df' = merge(df_personality, df_assets)
            /\ Control("merge", FALSE)
    /\ UNCHANGED <<envKey, API_KEY, dirExists, files, df_personality,
                   df_assets, resp, headers, written>>

Next ==
    \/ Config
    \/ MakeDirs
    \/ ReadPersonality
    \/ WritePersonality
    \/ GetAssets
    \/ WriteAssets
    \/ Merge
    \/ WriteMerged

Spec == Init /\ [][Next]_vars

(* ---- the merge on its own: the run is at line 38, every statement     ---- *)
(* ---- before it has succeeded and the two frames are any of the tables ---- *)
InitMerge ==
    /\ pc = "merge"
    /\ envKey = "env_key"
    /\ API_KEY = getenv(envKey, DefaultKey)
    /\ dirExists = TRUE
    /\ df_personality \in PersonalityTables(MaxRowsA)
    /\ df_assets \in AssetsTables(MaxRowsB)
    /\ merged_df = Unset
    /\ files = [p \in Paths |->
                  IF p = "personality.csv" THEN Full(df_personality)
                  ELSE IF p = "assets.csv" THEN Full(df_assets)
                  ELSE Absent]
    /\ resp = [outcome |-> "response", status |-> 200, parsed |-> TRUE]
    /\ headers = API_KEY
    /\ err = "none"
    /\ written = <<"personality.csv", "assets.csv">>
    /\ trace = SubSeq(Steps, 1, StepIndex("merge") - 1)

NextMerge == Merge

SpecMerge == InitMerge /\ [][NextMerge]_vars

TypeOK ==
    /\ pc \in Range(Steps) \cup {"done", "error"}
    /\ written \in SeqsUpTo(Paths, 3)

(* ---- vocabulary of the properties ---- *)
WriteSteps == {"write_personality", "write_assets", "write_merged"}

Executed(step) == step \in Range(trace)

IsPrefix(s, t) == Len(s) <= Len(t) /\ \A i \in 1..Len(s) : s[i] = t[i]

\* the run has not changed the file
Untouched(p) == files[p].state \in {"absent", "stale"}

\* the frame each file is written from
FrameOf(p) ==
    CASE p = "personality.csv" -> df_personality
      [] p = "assets.csv" -> df_assets
      [] OTHER -> merged_df

\* the merge statement ran and returned
Merged == Executed("merge") /\ err # "merge"

Count(T, k) == Cardinality({i \in DOMAIN T.rows : T.rows[i].id = k})

\* rows of the full outer join for key k
JoinCard(A, B, k) ==
    IF Count(A, k) > 0 /\ Count(B, k) > 0 THEN Count(A, k) * Count(B, k)
    ELSE Count(A, k) + Count(B, k)

RECURSIVE SumJoinCard(_, _, _)
SumJoinCard(A, B, S) ==
    IF S = {} THEN 0
    ELSE LET k == CHOOSE x \in S : TRUE
         IN JoinCard(A, B, k) + SumJoinCard(A, B, S \ {k})

(* ---- C1 ---- *)
AssetsRequestTimedOut == resp.outcome = "timeout"

AssetsOutputsNotWritten ==
    /\ pc = "error"
    /\ "assets.csv" \notin Range(written)
    /\ "merged_dataset.csv" \notin Range(written)
    /\ Untouched("assets.csv")
    /\ Untouched("merged_dataset.csv")

C2_MergeErrorBeforeAnyWrite ==
    (/\ err = "merge"
     /\ ("_id" \notin df_personality.cols \/ "_id" \notin df_assets.cols))
        => (written = <<>> /\ \A p \in Paths : Untouched(p))

(* ---- C3 ---- *)
\* C3: the steps of every run are in the order FETCH_PERSONALITY,
\* FETCH_ASSETS, MERGE, WRITE_ALL: both fetches come before the merge and
\* every file write comes after the merge.
C3_StrictLinearOrder ==
    /\ \A i \in DOMAIN trace :
          trace[i] = "merge" =>
              /\ \E j \in 1..(i - 1) : trace[j] = "read_personality"
              /\ \E j \in 1..(i - 1) : trace[j] = "get_assets"
    /\ \A i \in DOMAIN trace :
          trace[i] \in WriteSteps => \E j \in 1..(i - 1) : trace[j] = "merge"

(* ---- C4 ---- *)
PersonalityFetchFailed == err = "read_personality"

AssetsFetchFailed == resp.outcome # "none" /\ ~resp.parsed

\* C4: when the personality fetch or the assets fetch fails, the merge is
\* never executed and merged_dataset.csv is not written in that run.
C4_FetchFailureHaltsBeforeMerge ==
    (PersonalityFetchFailed \/ AssetsFetchFailed)
        => /\ ~Executed("merge")
           /\ merged_df = Unset
           /\ "merged_dataset.csv" \notin Range(written)
           /\ Untouched("merged_dataset.csv")

C4_Witness ==
    /\ PersonalityFetchFailed
    /\ pc = "error"
    /\ trace = <<"config", "makedirs", "read_personality">>

(* ---- C5 ---- *)
\* C5: when the API key is absent from the environment, the assets request
\* is never issued and the key in use is never the default embedded in the
\* source.
C5_NoKeyFailsFast ==
    envKey = "absent"
        => /\ API_KEY # DefaultKey
           /\ headers = "none"
           /\ ~Executed("get_assets")

(* ---- C6 ---- *)
\* C6: when both tables have an "_id" column, every "_id" value of either
\* table is the "_id" of at least one row of the merged table.
C6_NoKeyDropped ==
    Merged =>
        \A k \in KeysOf(df_personality) \cup KeysOf(df_assets) :
            \E i \in DOMAIN merged_df.rows : merged_df.rows[i].id = k

C6_Witness ==
    /\ Merged
    /\ KeysOf(df_personality) = {1}
    /\ KeysOf(df_assets) = {2}
    /\ KeysOf(merged_df) = {1, 2}

(* ---- C7 ---- *)
\* C7: the merged table has, for every key k, count_A(k) * count_B(k) rows
\* when k is in both tables, count_A(k) rows when k is only in A and
\* count_B(k) rows when k is only in B, and no other row.
C7_OuterJoinCardinality ==
    Merged =>
        /\ Len(merged_df.rows)
             = SumJoinCard(df_personality, df_assets,
                           KeysOf(df_personality) \cup KeysOf(df_assets))
        /\ \A k \in KeyVals :
              Count(merged_df, k) = JoinCard(df_personality, df_assets, k)

C7_Witness ==
    /\ Merged
    /\ Count(df_personality, 1) = 2
    /\ Count(df_assets, 1) = 2
    /\ Len(merged_df.rows) = 4

(* ---- C8 ---- *)
\* C8: a merged row whose "_id" is only in A has null in B's non-key
\* column, a merged row whose "_id" is only in B has null in A's non-key
\* column, and a merged row whose "_id" is in both has the values of a
\* matching row of A and of a matching row of B.
C8_NullFillAndCombine ==
    Merged =>
        \A i \in DOMAIN merged_df.rows :
            LET r == merged_df.rows[i]
                inA == r.id \in KeysOf(df_personality)
                inB == r.id \in KeysOf(df_assets)
            IN  /\ (inA /\ ~inB) => r.asset_value = NaN
                /\ (inB /\ ~inA) => r.trait = NaN
                /\ (inA /\ inB) =>
                      /\ \E a \in Range(SelectRows(df_personality, r.id)) :
                            r.trait = a.trait
                      /\ \E b \in Range(SelectRows(df_assets, r.id)) :
                            r.asset_value = b.asset_value

C8_Witness ==
    /\ Merged
    /\ df_personality.rows = <<Row(1, 2, NaN), Row(2, 1, NaN)>>
    /\ df_assets.rows = <<Row(2, NaN, 2), Row(NaN, NaN, 1)>>
    /\ merged_df.rows = <<Row(1, 2, NaN), Row(2, 1, 2), Row(NaN, NaN, 1)>>

(* ---- C9 ---- *)
WriteFailed == err \in WriteSteps

\* C9: once a file write has failed, the run is in error and takes no
\* further step, and every file written earlier in the run holds what the
\* run wrote to it.
C9_WriteFailureStopsRun ==
    /\ [](WriteFailed =>
            /\ pc = "error"
            /\ trace[Len(trace)] = err
            /\ \A i \in DOMAIN written :
                  written[i] # PathOf(err) =>
                      files[written[i]] = Full(FrameOf(written[i])))
    /\ [][~WriteFailed]_vars

C9_Witness ==
    /\ err = "write_merged"
    /\ pc = "error"
    /\ files["personality.csv"] = Full(df_personality)
    /\ files["assets.csv"] = Full(df_assets)
    /\ files["merged_dataset.csv"].state = "partial"
    /\ df_assets.rows # <<>>

(* ---- C10 ---- *)
\* C10: the files written by a run, in order, are a prefix of
\* personality.csv, assets.csv, merged_dataset.csv.
C10_WrittenIsPrefix ==
    IsPrefix(written, <<"personality.csv", "assets.csv", "merged_dataset.csv">>)

C10_Witness ==
    /\ written = <<"personality.csv", "assets.csv">>
    /\ err = "merge"

====
